---- MODULE Spec2Model ----
(***************************************************************************)
(* EventFlow AI (src/App.jsx, src/components/EventCard.jsx).               *)
(*                                                                         *)
(* The App component as a state machine: the React state cells (events,    *)
(* isModalOpen, isLoading, error, formData), the localStorage slot         *)
(* 'ai_events_v1', the plan requests awaiting the endpoint (each holding   *)
(* the formData and events its generateEventPlan closure captured), and    *)
(* the wall clock read by Date.now().                                      *)
(*                                                                         *)
(* Strings are sequences of one-character strings, so that emptiness,      *)
(* whitespace and trimming are computed.  The stored text is a sequence of *)
(* tokens written by Stringify and read back by ParseStored.               *)
(***************************************************************************)
EXTENDS Integers, Sequences, FiniteSets, TLC

VARIABLES
    events,       \* useState events: ordered collection, newest first
    isModalOpen,  \* useState isModalOpen
    isLoading,    \* useState isLoading
    error,        \* useState error: Null or a message
    formData,     \* useState formData
    storage,      \* localStorage slot 'ai_events_v1'
    inflight,     \* plan requests whose await has not resumed yet
    now,          \* the wall clock (Date.now())
    crashed       \* an exception escaped the component's render

vars == <<events, isModalOpen, isLoading, error, formData, storage, inflight, now, crashed>>

----------------------------------------------------------------------------
(* Bounds *)

MaxEvents == 2
MaxClock == 1
MaxInflight == 2

----------------------------------------------------------------------------
(* Strings and values *)

Null == "null"
ValidationMsg == "Please fill in all required fields."
HiccupMsg == "Oops! The AI had a hiccup. Please try again."

Space == " "
GenderAny == <<"A", "n", "y">>

Names == {<<>>, <<Space>>, <<"M">>}
Ages == {<<>>, <<"7">>}
Genders == {GenderAny}
EventTypes == {<<>>, <<"B">>}

InputValues(field) ==
    CASE field = "name" -> Names
      [] field = "age" -> Ages
      [] field = "gender" -> Genders
      [] field = "eventType" -> EventTypes

FormFields == {"name", "age", "gender", "eventType"}

DefaultForm == [name |-> <<>>, age |-> <<>>, gender |-> GenderAny, eventType |-> <<>>]

\* JavaScript truthiness of a string: the empty string is the only falsy one.
Falsy(s) == s = <<>>

\* String.prototype.trim on a sequence of characters or tokens.
RECURSIVE TrimLeft(_)
TrimLeft(s) == IF s # <<>> /\ Head(s) = Space THEN TrimLeft(Tail(s)) ELSE s

RECURSIVE TrimRight(_)
TrimRight(s) ==
    IF s # <<>> /\ s[Len(s)] = Space THEN TrimRight(SubSeq(s, 1, Len(s) - 1)) ELSE s

Trim(s) == TrimRight(TrimLeft(s))

RECURSIVE Concat(_)
Concat(ss) == IF ss = <<>> THEN <<>> ELSE Head(ss) \o Concat(Tail(ss))

\* Index of the first occurrence of tok in s, or Len(s) + 1.
FirstIndex(s, tok) ==
    IF \E i \in 1..Len(s) : s[i] = tok
    THEN CHOOSE i \in 1..Len(s) : s[i] = tok /\ \A j \in 1..(i - 1) : s[j] # tok
    ELSE Len(s) + 1

\* The segments of s, each ended by sep.
RECURSIVE SplitOn(_, _)
SplitOn(s, sep) ==
    IF s = <<>> THEN <<>>
    ELSE LET n == FirstIndex(s, sep)
         IN <<SubSeq(s, 1, n - 1)>> \o SplitOn(SubSeq(s, n + 1, Len(s)), sep)

\* { ...a, ...b }: b's keys override a's.
Spread(a, b) ==
    [k \in (DOMAIN a) \cup (DOMAIN b) |-> IF k \in DOMAIN b THEN b[k] ELSE a[k]]

RemoveAt(s, i) == SubSeq(s, 1, i - 1) \o SubSeq(s, i + 1, Len(s))

----------------------------------------------------------------------------
(* JSON.stringify / JSON.parse of the collection *)

KeyOrder == <<"id", "name", "age", "gender", "eventType", "theme_suggestions", "createdAt">>
NumKeys == {"id"}
ArrKeys == {"theme_suggestions"}
Quote == "\""

EncodeArr(a) == Concat([i \in DOMAIN a |-> <<Quote>> \o a[i]])

RECURSIVE DecodeArr(_)
DecodeArr(t) ==
    IF t = <<>> THEN <<>>
    ELSE LET rest == Tail(t)
             n == FirstIndex(rest, Quote)
         IN <<SubSeq(rest, 1, n - 1)>> \o DecodeArr(SubSeq(rest, n, Len(rest)))

EncodeValue(k, v) ==
    IF k \in NumKeys THEN <<ToString(v)>>
    ELSE IF k \in ArrKeys THEN EncodeArr(v)
    ELSE v

DecodeValue(k, t) ==
    IF k \in NumKeys THEN CHOOSE n \in 0..(MaxClock + 1) : ToString(n) = t[1]
    ELSE IF k \in ArrKeys THEN DecodeArr(t)
    ELSE t

EncodeEntity(e) ==
    Concat([i \in DOMAIN KeyOrder |->
              IF KeyOrder[i] \in DOMAIN e
              THEN <<KeyOrder[i]>> \o EncodeValue(KeyOrder[i], e[KeyOrder[i]]) \o <<";">>
              ELSE <<>>]) \o <<"|">>

DecodeEntity(t) ==
    LET fields == SplitOn(t, ";")
        keys == {fields[i][1] : i \in DOMAIN fields}
        FieldOf(k) == fields[CHOOSE i \in DOMAIN fields : fields[i][1] = k]
    IN [k \in keys |-> DecodeValue(k, Tail(FieldOf(k)))]

Stringify(evs) == <<"[">> \o Concat([i \in DOMAIN evs |-> EncodeEntity(evs[i])]) \o <<"]">>

CanParse(text) == Len(text) >= 2 /\ text[1] = "[" /\ text[Len(text)] = "]"

ParseStored(text) ==
    LET items == SplitOn(SubSeq(text, 2, Len(text) - 1), "|")
    IN [i \in DOMAIN items |-> DecodeEntity(items[i])]

----------------------------------------------------------------------------
(* The storage slot *)

NoItem == [present |-> FALSE, text |-> <<>>]
Item(text) == [present |-> TRUE, text |-> text]

Corrupt == <<"{">>

\* What the slot may hold when the page is first opened.
InitialSlots == {NoItem, Item(<<>>), Item(Stringify(<<>>)), Item(Corrupt)}

\* localStorage.getItem returns null for a missing key; null and '' are falsy.
LoadThrows(slot) == slot.present /\ ~Falsy(slot.text) /\ ~CanParse(slot.text)

LoadEvents(slot) ==
    IF slot.present /\ ~Falsy(slot.text) THEN ParseStored(slot.text) ELSE <<>>

\* The effect with an empty dependency list: it runs at mount only.
WriteThroughAtMountOnly(evs) == storage

\* The effect on [events]: the whole collection written to the slot.
WriteThrough(evs) == Item(Stringify(evs))

----------------------------------------------------------------------------
(* The endpoint's answers *)

\* The three-backquote code fence, with and without the json tag, as tokens.
FenceJson == "FENCE-json"
Fence == "FENCE"
PlanDoc == "{theme_suggestions:[U]}"
OverrideDoc == "{id:0,name:E}"
Garbage == "Sorry"

Documents == {PlanDoc, OverrideDoc}

DocumentValue(tok) ==
    IF tok = PlanDoc THEN [theme_suggestions |-> << <<"U">> >>]
    ELSE [id |-> 0, name |-> <<"E">>]

ResponseTexts ==
    { <<PlanDoc>>,
      <<FenceJson, Space, PlanDoc, Space, Fence>>,
      <<OverrideDoc>>,
      <<Garbage>>,
      <<Garbage, Space, PlanDoc>>,
      <<FenceJson, Fence>> }

Pending == [kind |-> "pending", text |-> <<>>]

\* neterr: fetch rejects; status500: response.ok is false; badbody:
\* response.json() rejects or the body has no candidates[0]; ok: the body
\* carries the given text.
Responses ==
    { [kind |-> "neterr", text |-> <<>>],
      [kind |-> "status500", text |-> <<>>],
      [kind |-> "badbody", text |-> <<>>] }
    \cup { [kind |-> "ok", text |-> t] : t \in ResponseTexts }

\* textResponse.replace(/FENCE-json/g, '').replace(/FENCE/g, '').trim()
CleanJson(text) ==
    Trim(SelectSeq(SelectSeq(text, LAMBDA t : t # FenceJson), LAMBDA t : t # Fence))

JsonParses(text) == Len(Trim(text)) = 1 /\ Trim(text)[1] \in Documents

\* The try block up to JSON.parse: does it throw, and what is aiData.
Outcome(resp) ==
    IF resp.kind = "ok" /\ JsonParses(CleanJson(resp.text))
    THEN [ok |-> TRUE, aiData |-> DocumentValue(Trim(CleanJson(resp.text))[1])]
    ELSE [ok |-> FALSE, aiData |-> <<>>]

\* new Date().toLocaleDateString()
LocaleDate(t) == <<"d", ToString(t \div 2)>>

NewEvent(fd, aiData, t) ==
    Spread(Spread(Spread([id |-> t], fd), aiData), [createdAt |-> LocaleDate(t)])

----------------------------------------------------------------------------
(* Initial state: the component mounts *)

Init ==
    \E slot \in InitialSlots :
        /\ crashed = LoadThrows(slot)
        /\ events = IF crashed THEN <<>> ELSE LoadEvents(slot)
        /\ storage = IF crashed THEN slot ELSE Item(Stringify(events))
        /\ isModalOpen = FALSE
        /\ isLoading = FALSE
        /\ error = Null
        /\ formData = DefaultForm
        /\ inflight = <<>>
        /\ now = 0

----------------------------------------------------------------------------
(* Event handlers *)

\* A response has arrived and the continuation of the await is queued: it
\* runs before any other handler.
Settling == \E i \in DOMAIN inflight : inflight[i].resp # Pending

\* The header button.
OpenModal ==
    /\ ~crashed /\ ~Settling
    /\ isModalOpen' = TRUE
    /\ UNCHANGED <<events, isLoading, error, formData, storage, inflight, now, crashed>>

\* The modal's X button.
CloseModal ==
    /\ ~crashed /\ ~Settling
    /\ isModalOpen
    /\ isModalOpen' = FALSE
    /\ UNCHANGED <<events, isLoading, error, formData, storage, inflight, now, crashed>>

handleInputChange(field, value) ==
    /\ ~crashed /\ ~Settling
    /\ isModalOpen
    /\ formData' = [formData EXCEPT ![field] = value]
    /\ UNCHANGED <<events, isModalOpen, isLoading, error, storage, inflight, now, crashed>>

\* The guard without its age test.
MissingRequiredWithoutAge(fd) == Falsy(fd.name) \/ Falsy(fd.eventType)

\* The guard of generateEventPlan.
MissingRequired(fd) == Falsy(fd.name) \/ Falsy(fd.age) \/ Falsy(fd.eventType)

\* The submit button without its disabled attribute.
SubmitEnabledWhileLoading == isModalOpen

\* The submit button is rendered inside the modal and disabled while loading.
SubmitEnabled == isModalOpen /\ ~isLoading

\* generateEventPlan up to its first await.
generateEventPlan ==
    /\ ~crashed /\ ~Settling
    /\ SubmitEnabled
    /\ IF MissingRequired(formData)
       THEN /\ error' = ValidationMsg
            /\ UNCHANGED <<events, isModalOpen, isLoading, formData, storage, inflight, now, crashed>>
       ELSE /\ Len(events) < MaxEvents
            /\ Len(inflight) < MaxInflight
            /\ isLoading' = TRUE
            /\ error' = Null
            /\ inflight' = Append(inflight,
                                  [formData |-> formData, events |-> events, resp |-> Pending])
            /\ UNCHANGED <<events, isModalOpen, formData, storage, now, crashed>>

\* The endpoint (or the network) answers request i.
EndpointResponds(i, r) ==
    /\ ~crashed /\ ~Settling
    /\ inflight[i].resp = Pending
    /\ inflight' = [inflight EXCEPT ![i].resp = r]
    /\ UNCHANGED <<events, isModalOpen, isLoading, error, formData, storage, now, crashed>>

\* The continuation with setIsLoading(false) at the end of the try block
\* instead of in a finally block.
generateEventPlanResumeWithoutFinally(i) ==
    /\ ~crashed
    /\ inflight[i].resp # Pending
    /\ LET req == inflight[i]
           out == Outcome(req.resp)
       IN IF out.ok
          THEN /\ events' = <<NewEvent(req.formData, out.aiData, now)>> \o req.events
               /\ storage' = WriteThrough(events')
               /\ isModalOpen' = FALSE
               /\ formData' = DefaultForm
               /\ isLoading' = FALSE
               /\ UNCHANGED error
          ELSE /\ error' = HiccupMsg
               /\ UNCHANGED <<events, storage, isModalOpen, formData, isLoading>>
    /\ inflight' = RemoveAt(inflight, i)
    /\ UNCHANGED <<now, crashed>>

\* generateEventPlan from the await to its end, for request i: the closure
\* sees the formData and events of the render in which it was invoked.
generateEventPlanResume(i) ==
    /\ ~crashed
    /\ inflight[i].resp # Pending
    /\ LET req == inflight[i]
           out == Outcome(req.resp)
       IN IF out.ok
          THEN /\ events' = <<NewEvent(req.formData, out.aiData, now)>> \o req.events
               /\ storage' = WriteThrough(events')
               /\ isModalOpen' = FALSE
               /\ formData' = DefaultForm
               /\ UNCHANGED error
          ELSE /\ error' = HiccupMsg
               /\ UNCHANGED <<events, storage, isModalOpen, formData>>
    /\ isLoading' = FALSE
    /\ inflight' = RemoveAt(inflight, i)
    /\ UNCHANGED <<now, crashed>>

\* The card's delete button: the ids on offer are those of the rendered cards.
deleteEvent(id) ==
    /\ ~crashed /\ ~Settling
    /\ \E i \in DOMAIN events : events[i].id = id
    /\ events' = SelectSeq(events, LAMBDA e : e.id # id)
    /\ storage' = WriteThrough(events')
    /\ UNCHANGED <<isModalOpen, isLoading, error, formData, inflight, now, crashed>>

\* The page is reloaded: the component mounts again from the slot, and the
\* requests of the previous page are gone.
Reload ==
    /\ ~crashed /\ ~Settling
    /\ crashed' = LoadThrows(storage)
    /\ events' = IF crashed' THEN <<>> ELSE LoadEvents(storage)
    /\ storage' = IF crashed' THEN storage ELSE WriteThrough(events')
    /\ isModalOpen' = FALSE
    /\ isLoading' = FALSE
    /\ error' = Null
    /\ formData' = DefaultForm
    /\ inflight' = <<>>
    /\ UNCHANGED now

\* Time passes.
Tick ==
    /\ ~crashed /\ ~Settling
    /\ now < MaxClock
    /\ now' = now + 1
    /\ UNCHANGED <<events, isModalOpen, isLoading, error, formData, storage, inflight, crashed>>

Next ==
    \/ OpenModal
    \/ CloseModal
    \/ \E field \in FormFields : \E value \in InputValues(field) : handleInputChange(field, value)
    \/ generateEventPlan
    \/ \E i \in DOMAIN inflight : \E r \in Responses : EndpointResponds(i, r)
    \/ \E i \in DOMAIN inflight : generateEventPlanResume(i)
    \/ \E id \in 0..MaxClock : deleteEvent(id)
    \/ Reload
    \/ Tick

Spec == Init /\ [][Next]_vars

----------------------------------------------------------------------------
(* Properties *)

\* A request whose response has arrived: the next step is its continuation.
Arrived(i) == inflight[i].resp # Pending

\* The response carries a JSON document, possibly inside fences and blanks.
CarriesDocument(resp) ==
    /\ resp.kind = "ok"
    /\ \E d \in Documents :
          SelectSeq(resp.text, LAMBDA t : t \notin {FenceJson, Fence, Space}) = <<d>>

\* Network failure, non-success status, unreadable body, or a text that is
\* not one JSON document.
CallFailsOrUnparseable(resp) ==
    \/ resp.kind \in {"neterr", "status500", "badbody"}
    \/ resp.kind = "ok" /\ ~CarriesDocument(resp)

HasEmptyRequired(fd) == fd.name = <<>> \/ fd.age = <<>> \/ fd.eventType = <<>>

WhitespaceOnly(s) == s # <<>> /\ \A i \in DOMAIN s : s[i] = Space

\* C1: when a plan request completes successfully, the collection becomes
\* the new entity followed by exactly the entities that were in the
\* collection immediately before the completion, in the same order.
C1_PrependToCurrentCollection ==
    [][\A i \in DOMAIN inflight :
          (Arrived(i) /\ CarriesDocument(inflight[i].resp))
              => /\ Len(events') = Len(events) + 1
                 /\ SubSeq(events', 2, Len(events')) = events]_vars

\* C2: for a response that parses, the created EventPlan has name, age,
\* gender and eventType equal to the form input at submission, whatever keys
\* the response holds; otherwise an error is reported and no entity is created.
C2_FormFieldsSurvive ==
    [][\A i \in DOMAIN inflight :
          Arrived(i) =>
              IF CarriesDocument(inflight[i].resp)
              THEN /\ Len(events') >= 1
                   /\ events'[1].name = inflight[i].formData.name
                   /\ events'[1].age = inflight[i].formData.age
                   /\ events'[1].gender = inflight[i].formData.gender
                   /\ events'[1].eventType = inflight[i].formData.eventType
              ELSE /\ error' # Null
                   /\ events' = events]_vars

\* C3: no two entities of the collection have the same id.
C3_IdsUnique ==
    \A i, j \in DOMAIN events : i # j => events[i].id # events[j].id

\* C4: when the endpoint call fails or the response text is not JSON, the
\* continuation creates no entity, leaves the collection (and the slot)
\* unchanged, sets the error message, leaves the modal as it is and clears the
\* loading flag.
C4_FailureLeavesCollection ==
    [][\A i \in DOMAIN inflight :
          (Arrived(i) /\ CallFailsOrUnparseable(inflight[i].resp))
              => /\ events' = events
                 /\ storage' = storage
                 /\ error' = HiccupMsg
                 /\ isModalOpen' = isModalOpen
                 /\ isLoading' = FALSE]_vars

C4_Witness ==
    /\ error = HiccupMsg
    /\ isModalOpen
    /\ ~isLoading
    /\ inflight = <<>>
    /\ Len(events) >= 1

\* C5: while name, age or eventType is empty no step issues a request, and
\* an invocation of generateEventPlan sets the validation message and leaves
\* the loading flag, the collection, the modal flag and the form input unchanged.
C5_EmptyFieldStopsBeforeRequest ==
    [][HasEmptyRequired(formData)
          => /\ Len(inflight') <= Len(inflight)
             /\ generateEventPlan
                  => /\ error' = ValidationMsg
                     /\ UNCHANGED <<events, isModalOpen, isLoading, formData,
                                    storage, inflight>>]_vars

C5_Witness ==
    /\ error = ValidationMsg
    /\ HasEmptyRequired(formData)
    /\ formData.name # <<>>
    /\ isModalOpen
    /\ ~isLoading
    /\ inflight = <<>>
    /\ Len(events) >= 1

\* C6: while name, age or eventType consists only of whitespace, no step
\* issues a request.
C6_WhitespaceStopsBeforeRequest ==
    [][(WhitespaceOnly(formData.name) \/ WhitespaceOnly(formData.age)
            \/ WhitespaceOnly(formData.eventType))
          => Len(inflight') <= Len(inflight)]_vars

\* C7: in every state of a running page the slot holds a text whose load
\* yields exactly the current collection, in order.
C7_SlotMirrorsCollection ==
    ~crashed =>
        /\ storage.present
        /\ ~LoadThrows(storage)
        /\ LoadEvents(storage) = events

C7_Witness ==
    /\ ~crashed
    /\ Len(events) = 2
    /\ events[1].id # events[2].id
    /\ "theme_suggestions" \in DOMAIN events[1]
    /\ LoadEvents(storage) = events
    /\ inflight = <<>>

\* C8: loading at startup never lets a parse exception escape.
C8_LoadNeverThrows == ~crashed

\* C9: at most one plan request is in flight, and loading is true for as
\* long as one is.
C9_AtMostOneInFlight ==
    /\ Len(inflight) <= 1
    /\ inflight # <<>> => isLoading

C9_Witness ==
    /\ Len(inflight) = 1
    /\ isLoading
    /\ isModalOpen
    /\ formData # inflight[1].formData
    /\ events # inflight[1].events

\* C10: whenever the modal goes from closed to open, no error message is set.
C10_OpenClearsError ==
    [][(~isModalOpen /\ isModalOpen') => error' = Null]_vars

====
